---- MODULE Spec2Model ----
(***************************************************************************)
(* A model of pymif (src/pymif.py): the Mif line store and its header      *)
(* queries, the geometry decoders of Mif.getGeometry and the attribute     *)
(* join of Mid.data.                                                       *)
(*                                                                         *)
(* A Python str is a sequence of one-character strings; a list is a        *)
(* sequence; line numbers are 0-based as in the source, so line i of a     *)
(* list ls is ls[i + 1].  A call either returns a value or raises: both    *)
(* are records with a "kind" field ("ok", "none" for Python's None,        *)
(* "exc" for a raised exception).                                          *)
(***************************************************************************)
EXTENDS Integers, Sequences, FiniteSets, TLC

VARIABLES
    file_mif,   \* the text handed to Mif(...)
    file_mid,   \* the text handed to Mid(...), when there is a MID file: [given, text]
    pc,         \* "new": no Mif yet; "ready": before a call; "geom": inside
                \* getGeometry; "returned": a call has returned or raised
    lines,      \* Mif.lines
    mid,        \* the Mid object: [built, lines]
    result,     \* the last call and what it returned or raised
    stack       \* the call stack of getGeometry: one frame per running member loop

vars == <<file_mif, file_mid, pc, lines, mid, result, stack>>

----------------------------------------------------------------------------
(* Bounds of the checked inputs *)

MaxTextLen == 4

MaxHeaderLines == 4

MaxGeomLines == 4

MaxRegionLines == 4

MaxMidLen == 3

----------------------------------------------------------------------------
(* Python str and list primitives *)

Min(a, b) == IF a < b THEN a ELSE b

\* s[n:]
From(s, n) == IF n >= Len(s) THEN <<>> ELSE SubSeq(s, n + 1, Len(s))

\* s[:n]
Take(s, n) == IF n <= 0 THEN <<>> ELSE SubSeq(s, 1, Min(n, Len(s)))

\* s[a:b] for 0 <= a
Slice(s, a, b) == From(Take(s, b), a)

UpperChars == <<"A", "B", "C", "D", "E", "F", "G", "H", "I", "J", "K", "L", "M",
                "N", "O", "P", "Q", "R", "S", "T", "U", "V", "W", "X", "Y", "Z">>

LowerChars == <<"a", "b", "c", "d", "e", "f", "g", "h", "i", "j", "k", "l", "m",
                "n", "o", "p", "q", "r", "s", "t", "u", "v", "w", "x", "y", "z">>

UpperSet == { UpperChars[i] : i \in 1..Len(UpperChars) }

LowerOf == [c \in UpperSet |-> LowerChars[CHOOSE i \in 1..Len(UpperChars) : UpperChars[i] = c]]

LowerChar(c) == IF c \in UpperSet THEN LowerOf[c] ELSE c

\* str.lower()
Lower(s) == [i \in 1..Len(s) |-> LowerChar(s[i])]

\* s.startswith(p)
StartsWith(s, p) == Len(s) >= Len(p) /\ SubSeq(s, 1, Len(p)) = p

\* s.replace(c, '') for a one-character c
RECURSIVE RemoveChar(_, _)
RemoveChar(s, c) ==
    IF s = <<>> THEN <<>>
    ELSE IF Head(s) = c THEN RemoveChar(Tail(s), c)
    ELSE <<Head(s)>> \o RemoveChar(Tail(s), c)

\* the 0-based index of the first occurrence of sep in s, or -1
RECURSIVE FindFrom(_, _, _)
FindFrom(s, sep, i) ==
    IF i + Len(sep) > Len(s) THEN -1
    ELSE IF SubSeq(s, i + 1, i + Len(sep)) = sep THEN i
    ELSE FindFrom(s, sep, i + 1)

\* s.split(sep) for a non-empty sep: always at least one piece
RECURSIVE Split(_, _)
Split(s, sep) ==
    LET at == FindFrom(s, sep, 0)
    IN IF at < 0 THEN <<s>>
       ELSE <<Take(s, at)>> \o Split(From(s, at + Len(sep)), sep)

\* ''.join(parts)
RECURSIVE Join(_)
Join(parts) == IF parts = <<>> THEN <<>> ELSE Head(parts) \o Join(Tail(parts))

\* del ls[i]
DelAt(ls, i) == Take(ls, i) \o From(ls, i + 1)

----------------------------------------------------------------------------
(* Results of calls *)

Ok(v) == [kind |-> "ok", val |-> v, exc |-> "", msg |-> ""]

\* Python's None
None == [kind |-> "none", val |-> <<>>, exc |-> "", msg |-> ""]

Raise(e, m) == [kind |-> "exc", val |-> <<>>, exc |-> e, msg |-> m]

IsOk(r) == r.kind = "ok"

IsExc(r) == r.kind = "exc"

NoCall == [op |-> "", arg |-> <<>>, soft |-> FALSE, ret |-> None]

----------------------------------------------------------------------------
(* Mif.__init__ *)

\* for l in xrange(len(self.lines)): ... del self.lines[l]
\* n is the length before the loop: xrange is evaluated once
RECURSIVE StripLoop(_, _, _)
StripLoop(ls, l, n) ==
    IF l >= n THEN ls
    ELSE IF l >= Len(ls) THEN ls
    ELSE IF ls[l + 1] = <<>> THEN StripLoop(DelAt(ls, l), l + 1, n)
    ELSE StripLoop(ls, l + 1, n)

MifLines(text) ==
    LET split == Split(text, <<"\n">>)
    IN StripLoop(split, 0, Len(split))

MifInit ==
    /\ pc = "new"
    /\ lines' = MifLines(file_mif)
    /\ pc' = "ready"
    /\ UNCHANGED <<file_mif, file_mid, mid, result, stack>>

----------------------------------------------------------------------------
(* Mif.getLineStarted *)

\* a plausible slip: the keyword is compared as given, not lowered
LineMatchesKeywordAsGiven(line, string) ==
    Lower(Take(line, Len(string))) = string

\* line[:l].lower() == string.lower()
LineMatches(line, string) ==
    Lower(Take(line, Len(string))) = Lower(string)

RECURSIVE LineStartedLoop(_, _, _)
LineStartedLoop(ls, string, i) ==
    IF i >= Len(ls) THEN <<>>
    ELSE LET l == Len(string)
             line == ls[i + 1]
             attrs == From(line, l)
             attrs1 == IF attrs # <<>> /\ attrs[1] = " " THEN Tail(attrs) ELSE attrs
         IN IF LineMatches(line, string)
            THEN <<[line_num |-> i, attrs |-> attrs1, line_text |-> line]>>
                 \o LineStartedLoop(ls, string, i + 1)
            ELSE LineStartedLoop(ls, string, i + 1)

getLineStarted(ls, string) == LineStartedLoop(ls, string, 0)

\* the keywords the model calls getLineStarted with
Keywords == { <<>>, <<"a">>, <<"A">>, <<"a", "B">>, <<"A", " ">> }

GetLineStarted ==
    /\ pc = "ready"
    /\ \E string \in Keywords :
         result' = [op |-> "getLineStarted", arg |-> string, soft |-> FALSE,
                    ret |-> Ok(getLineStarted(lines, string))]
    /\ pc' = "returned"
    /\ UNCHANGED <<file_mif, file_mid, lines, mid, stack>>

----------------------------------------------------------------------------
(* int(s) of a str: surrounding whitespace and one sign are allowed *)

Digits == <<"0", "1", "2", "3", "4", "5", "6", "7", "8", "9">>

DigitSet == { Digits[i] : i \in 1..Len(Digits) }

DigitOf == [c \in DigitSet |-> (CHOOSE i \in 1..Len(Digits) : Digits[i] = c) - 1]

IsDigit(c) == c \in DigitSet

DigitVal(c) == DigitOf[c]

Whitespace == {" ", "\t", "\n", "\r", "\f"}

RECURSIVE LStrip(_)
LStrip(s) == IF s # <<>> /\ Head(s) \in Whitespace THEN LStrip(Tail(s)) ELSE s

RECURSIVE RStrip(_)
RStrip(s) ==
    IF s # <<>> /\ s[Len(s)] \in Whitespace THEN RStrip(Take(s, Len(s) - 1)) ELSE s

RECURSIVE DigitsVal(_, _)
DigitsVal(s, acc) ==
    IF s = <<>> THEN acc ELSE DigitsVal(Tail(s), 10 * acc + DigitVal(Head(s)))

\* [ok, val]: ok is FALSE where int(s) raises ValueError
ParseInt(s) ==
    LET t == RStrip(LStrip(s))
        signed == t # <<>> /\ t[1] \in {"+", "-"}
        body == IF signed THEN Tail(t) ELSE t
    IN IF body # <<>> /\ \A i \in 1..Len(body) : IsDigit(body[i])
       THEN [ok |-> TRUE,
             val |-> IF signed /\ t[1] = "-" THEN 0 - DigitsVal(body, 0)
                     ELSE DigitsVal(body, 0)]
       ELSE [ok |-> FALSE, val |-> 0]

IndexError == Raise("IndexError", "index out of range")

IntError == Raise("ValueError", "invalid literal for int()")

----------------------------------------------------------------------------
(* Mif.getColumns *)

KwColumns == <<"C", "O", "L", "U", "M", "N", "S">>

\* lines 91-100: one column line; ls[i] raises when i is past the end
ColumnOf(ls, i) ==
    IF i >= Len(ls) THEN IndexError
    ELSE LET line == ls[i + 1]
         IN IF line = <<>> THEN IndexError
            ELSE LET line1 == IF line[1] \in {"\t", " "} THEN Tail(line) ELSE line
                     toks == Split(RemoveChar(line1, "\t"), <<" ">>)
                     toks1 == IF toks[1] \in {<<"\t">>, <<" ">>, <<>>}
                              THEN Tail(toks) ELSE toks
                 IN IF toks1 = <<>> THEN IndexError
                    ELSE Ok([name |-> toks1[1], type |-> Join(Tail(toks1))])

\* for i in range(start, finish)
RECURSIVE ColumnsLoop(_, _, _, _)
ColumnsLoop(ls, i, finish, acc) ==
    IF i >= finish THEN Ok(acc)
    ELSE LET c == ColumnOf(ls, i)
         IN IF IsExc(c) THEN c ELSE ColumnsLoop(ls, i + 1, finish, Append(acc, c.val))

getColumns(ls) ==
    LET info == getLineStarted(ls, KwColumns)
    IN IF info = <<>> THEN Ok(<<>>)
       ELSE LET start == info[1].line_num + 1
                n == ParseInt(info[1].attrs)
            IN IF ~n.ok THEN IntError
               ELSE ColumnsLoop(ls, start, start + n.val, <<>>)

GetColumns ==
    /\ pc = "ready"
    /\ result' = [op |-> "getColumns", arg |-> <<>>, soft |-> FALSE,
                  ret |-> getColumns(lines)]
    /\ pc' = "returned"
    /\ UNCHANGED <<file_mif, file_mid, lines, mid, stack>>

----------------------------------------------------------------------------
(* Mif.getDescription *)

KwDescription == <<"D", "E", "S", "C", "R", "I", "P", "T", "I", "O", "N">>

TabError == Raise("ValueError", "description line must start with a tab")

\* lines 119-129: one description line
DescriptionOf(ls, i) ==
    IF i >= Len(ls) THEN IndexError
    ELSE LET line == ls[i + 1]
         IN IF line = <<>> THEN IndexError
            ELSE IF line[1] # "\t" THEN TabError
            ELSE LET toks == Split(RemoveChar(line, "\t"), <<" ">>)
                     d == Join(Tail(toks))
                 IN IF d = <<>> THEN IndexError
                    ELSE Ok([name |-> toks[1],
                             description |-> IF d[1] \in {"\"", "'"}
                                             THEN Slice(d, 1, Len(d) - 1) ELSE d])

RECURSIVE DescriptionLoop(_, _, _, _)
DescriptionLoop(ls, i, finish, acc) ==
    IF i >= finish THEN Ok(acc)
    ELSE LET c == DescriptionOf(ls, i)
         IN IF IsExc(c) THEN c ELSE DescriptionLoop(ls, i + 1, finish, Append(acc, c.val))

getDescription(ls) ==
    LET info == getLineStarted(ls, KwDescription)
    IN IF info = <<>> THEN Ok(<<>>)
       ELSE LET start == info[1].line_num + 1
                n == ParseInt(info[1].attrs)
            IN IF ~n.ok THEN IntError
               ELSE DescriptionLoop(ls, start, start + n.val, <<>>)

GetDescription ==
    /\ pc = "ready"
    /\ result' = [op |-> "getDescription", arg |-> <<>>, soft |-> FALSE,
                  ret |-> getDescription(lines)]
    /\ pc' = "returned"
    /\ UNCHANGED <<file_mif, file_mid, lines, mid, stack>>

----------------------------------------------------------------------------
(* Mif.getDelimiter *)

KwDelimiter == <<"D", "E", "L", "I", "M", "I", "T", "E", "R">>

getDelimiter(ls) ==
    LET info == getLineStarted(ls, KwDelimiter)
    IN IF info = <<>> THEN Ok(<<"\t">>)
       ELSE LET delimiter == info[1].attrs
            IN IF delimiter = <<>> THEN IndexError
               ELSE IF delimiter[1] = delimiter[Len(delimiter)]
                       /\ delimiter[1] \in {"'", "\""}
               THEN Ok(Slice(delimiter, 1, Len(delimiter) - 1))
               ELSE Ok(delimiter)

GetDelimiter ==
    /\ pc = "ready"
    /\ result' = [op |-> "getDelimiter", arg |-> <<>>, soft |-> FALSE,
                  ret |-> getDelimiter(lines)]
    /\ pc' = "returned"
    /\ UNCHANGED <<file_mif, file_mid, lines, mid, stack>>

----------------------------------------------------------------------------
(* Mid.__init__ and Mid.data *)

MidInit ==
    /\ pc = "ready"
    /\ file_mid.given
    /\ ~mid.built
    /\ mid' = [built |-> TRUE, lines |-> Split(file_mid.text, <<"\n">>)]
    /\ UNCHANGED <<file_mif, file_mid, pc, lines, result, stack>>

MismatchError == Raise("ValueError", "columns length is not equal to mid file data")

SeparatorError == Raise("ValueError", "empty separator")

\* attr_name[key]
Field(col, key) == IF key = "description" THEN col.description ELSE col.name

\* lines 368-370: the row's values
RowValues(line, delimiter) ==
    Split(IF line[Len(line)] = "\t" THEN Take(line, Len(line) - 1) ELSE line, delimiter)

\* len(els) != len(columns) and not soft
RowMismatch(els, columns, soft) == Len(els) # Len(columns) /\ ~soft

\* for i in xrange(len(els)): columns[i % len(els)]
RECURSIVE AttrLoop(_, _, _, _, _)
AttrLoop(els, columns, key, i, acc) ==
    IF i >= Len(els) THEN Ok(acc)
    ELSE LET at == i % Len(els)
         IN IF at >= Len(columns) THEN IndexError
            ELSE AttrLoop(els, columns, key, i + 1,
                          Append(acc, [name |-> Field(columns[at + 1], key),
                                       value |-> els[i + 1]]))

\* for line in self.lines
RECURSIVE DataLoop(_, _, _, _, _, _)
DataLoop(mlines, columns, key, delimiter, soft, info) ==
    IF mlines = <<>> THEN Ok([count |-> Len(info), info |-> info])
    ELSE LET line == Head(mlines)
         IN IF line = <<>>
            THEN DataLoop(Tail(mlines), columns, key, delimiter, soft, info)
            ELSE IF delimiter = <<>> THEN SeparatorError
            ELSE LET els == RowValues(line, delimiter)
                 IN IF RowMismatch(els, columns, soft) THEN MismatchError
                    ELSE LET row == AttrLoop(els, columns, key, 0, <<>>)
                         IN IF IsExc(row) THEN row
                            ELSE DataLoop(Tail(mlines), columns, key, delimiter, soft,
                                          Append(info, row.val))

\* lines 358-359: the descriptions when there are any, else the columns
MidSchema(ls) ==
    LET d == getDescription(ls)
    IN IF IsExc(d) THEN [ret |-> d, key |-> ""]
       ELSE IF d.val # <<>> THEN [ret |-> d, key |-> "description"]
       ELSE [ret |-> getColumns(ls), key |-> "name"]

data(ls, mlines, soft) ==
    LET schema == MidSchema(ls)
        delimiter == getDelimiter(ls)
    IN IF IsExc(schema.ret) THEN schema.ret
       ELSE IF IsExc(delimiter) THEN delimiter
       ELSE DataLoop(mlines, schema.ret.val, schema.key, delimiter.val, soft, <<>>)

MidData ==
    /\ pc = "ready"
    /\ mid.built
    /\ \E soft \in BOOLEAN :
         result' = [op |-> "data", arg |-> <<>>, soft |-> soft,
                    ret |-> data(lines, mid.lines, soft)]
    /\ pc' = "returned"
    /\ UNCHANGED <<file_mif, file_mid, lines, mid, stack>>

----------------------------------------------------------------------------
(* The geometry keywords *)

KwData == <<"D", "A", "T", "A">>

KwPoint == <<"p", "o", "i", "n", "t">>

KwLine == <<"l", "i", "n", "e">>

KwPline == <<"p", "l", "i", "n", "e">>

KwRegion == <<"r", "e", "g", "i", "o", "n">>

KwArc == <<"a", "r", "c">>

KwText == <<"t", "e", "x", "t">>

KwRect == <<"r", "e", "c", "t">>

KwRoundrect == <<"r", "o", "u", "n", "d", "r", "e", "c", "t">>

KwEllipse == <<"e", "l", "l", "i", "p", "s", "e">>

KwMultipoint == <<"m", "u", "l", "t", "i", "p", "o", "i", "n", "t">>

KwCollection == <<"c", "o", "l", "l", "e", "c", "t", "i", "o", "n">>

KwNone == <<"n", "o", "n", "e">>

\* line 209: the keywords that start a geometry after DATA
types == {KwPoint, KwLine, KwPline, KwRegion, KwArc, KwText, KwRect, KwRoundrect,
          KwEllipse, KwMultipoint, KwCollection, KwNone}

\* line 311: the keywords that start a member of a collection
collection_types == types \ {KwNone}

\* lines 220-233 and 318-331: the keys of the dispatch table
parsers == types

\* str.startswith(tuple)
StartsWithAny(s, prefixes) == \E p \in prefixes : StartsWith(s, p)

\* self.lines[line].lower().replace('\t', '').split(' ')
LineStr(ls, line) == Split(RemoveChar(Lower(ls[line + 1]), "\t"), <<" ">>)

\* for l in range(start, start + count): self.lines[l].replace('\t', '').split(' ')
RECURSIVE CoordLines(_, _, _, _)
CoordLines(ls, l, finish, acc) ==
    IF l >= finish THEN Ok(acc)
    ELSE IF l >= Len(ls) THEN IndexError
    ELSE CoordLines(ls, l + 1, finish,
                    Append(acc, Split(RemoveChar(ls[l + 1], "\t"), <<" ">>)))

----------------------------------------------------------------------------
(* The decoders that read no other geometry *)

parsePoint(ls, line) ==
    Ok([type |-> "point", geom |-> From(LineStr(ls, line), 1)])

parseLine(ls, line) ==
    LET line_str == LineStr(ls, line)
    IN Ok([type |-> "line", geom |-> <<Slice(line_str, 1, 3), Slice(line_str, 3, 5)>>])

parsePline(ls, line) ==
    LET line_str == LineStr(ls, line)
        counted == Len(line_str) > 1 /\ line_str[2] # <<>>
        n == IF counted THEN ParseInt(line_str[2]) ELSE [ok |-> TRUE, val |-> 2]
    IN IF ~n.ok THEN IntError
       ELSE LET points == CoordLines(ls, line + 1, line + 1 + n.val, <<>>)
            IN IF IsExc(points) THEN points
               ELSE Ok([type |-> "pline", geom |-> <<points.val>>])

parseMultipoint(ls, line) ==
    LET line_str == LineStr(ls, line)
    IN IF Len(line_str) < 2 THEN IndexError
       ELSE LET n == ParseInt(line_str[2])
            IN IF ~n.ok THEN IntError
               ELSE LET points == CoordLines(ls, line + 1, line + 1 + n.val, <<>>)
                    IN IF IsExc(points) THEN points
                       ELSE Ok([type |-> "multipoint", geom |-> points.val])

\* lines 285-294: arc, text, rect, roundrect, ellipse
parseStub(type) == Ok([type |-> type, geom |-> None])

parseNone == Ok([type |-> "None", geom |-> None])

\* the call of a decoder other than region and collection
parseLeaf(key, ls, line) ==
    CASE key = KwPoint -> parsePoint(ls, line)
      [] key = KwLine -> parseLine(ls, line)
      [] key = KwPline -> parsePline(ls, line)
      [] key = KwMultipoint -> parseMultipoint(ls, line)
      [] key = KwArc -> parseStub("arc")
      [] key = KwText -> parseStub("text")
      [] key = KwRect -> parseStub("rect")
      [] key = KwRoundrect -> parseStub("roundrect")
      [] key = KwEllipse -> parseStub("ellipse")
      [] key = KwNone -> parseNone

----------------------------------------------------------------------------
(* Mif.getGeometry and the decoders it runs, one frame of the stack per      *)
(* running loop: getGeometry's own ("top"), __parseCollection's member loop  *)
(* and __parseRegion's ring loop.                                           *)

NoLen == [set |-> FALSE, val |-> 0]

\* kind: "top", "collection" or "region"; entry: the line the decoder was called
\* at (the DATA line for "top"); declared: collection_len or reg_count;
\* members: geom_objects or collection_arr; l: the scan's loop variable;
\* line, reg_len: the region's cursor and ring length; out: geom, geom_return
\* or geometry
Frame(kind, entry, declared, members, l, line, reg_len, out) ==
    [kind |-> kind, entry |-> entry, declared |-> declared, members |-> members,
     l |-> l, line |-> line, reg_len |-> reg_len, out |-> out]

\* lines 212-215
RECURSIVE GeomObjects(_, _, _)
GeomObjects(ls, line_num, acc) ==
    IF line_num >= Len(ls) THEN acc
    ELSE GeomObjects(ls, line_num + 1,
                     IF StartsWithAny(Lower(ls[line_num + 1]), types)
                     THEN Append(acc, line_num) ELSE acc)

\* a plausible slip: the member search starts at the collection's own line
CollectFromEntry(line) == line

\* line 310: line += 1
CollectFrom(line) == line + 1

\* lines 312-317: arr is collection_arr, l the last line looked at
RECURSIVE CollectLoop(_, _, _, _)
CollectLoop(ls, l, c, arr) ==
    IF l >= Len(ls) THEN [arr |-> arr, l |-> l - 1]
    ELSE LET arr1 == IF StartsWithAny(RemoveChar(Lower(ls[l + 1]), "\t"), collection_types)
                     THEN Append(arr, l) ELSE arr
         IN IF Len(arr1) >= c THEN [arr |-> arr1, l |-> l]
            ELSE CollectLoop(ls, l + 1, c, arr1)

\* lines 270-277: the first line from l on that int() accepts, or -1
RECURSIVE FindCount(_, _)
FindCount(ls, l) ==
    IF l >= Len(ls) THEN -1
    ELSE IF ParseInt(ls[l + 1]).ok THEN l
    ELSE FindCount(ls, l + 1)

TopFrame == stack[Len(stack)]

\* the top frame has a member left to decode
Pending ==
    /\ pc = "geom"
    /\ TopFrame.kind \in {"top", "collection"}
    /\ Len(TopFrame.out) < Len(TopFrame.members)

\* line 219 and line 334: the key looked up in the dispatch table
DispatchKey(kind, ls, obj) ==
    IF kind = "top" THEN Split(Lower(ls[obj + 1]), <<" ">>)[1]
    ELSE LineStr(ls, obj)[1]

\* lines 307-317: the call of __parseCollection up to its member loop
EnterCollection(ls, line) ==
    LET line_str == LineStr(ls, line)
    IN IF Len(line_str) < 2 THEN IndexError
       ELSE LET c == ParseInt(line_str[2])
            IN IF ~c.ok THEN IntError
               ELSE LET scan == CollectLoop(ls, CollectFrom(line), c.val, <<>>)
                    IN Ok(Frame("collection", line, c.val, scan.arr, scan.l,
                                line, NoLen, <<>>))

\* lines 265-268: the call of __parseRegion up to its ring loop
EnterRegion(ls, line) ==
    LET line_str == LineStr(ls, line)
    IN IF Len(line_str) < 2 THEN IndexError
       ELSE LET r == ParseInt(line_str[2])
            IN IF ~r.ok THEN IntError
               ELSE Ok(Frame("region", line, r.val, <<>>, line, line, NoLen, <<>>))

\* what calling the decoder of the next member does: "raise", "push" a frame
\* or "append" the value a decoder returned
Call(f, ls) ==
    LET obj == f.members[Len(f.out) + 1]
        key == DispatchKey(f.kind, ls, obj)
    IN IF key \notin parsers THEN [act |-> "raise"]
       ELSE IF key \in {KwCollection, KwRegion}
       THEN LET e == IF key = KwCollection THEN EnterCollection(ls, obj)
                     ELSE EnterRegion(ls, obj)
            IN IF IsExc(e) THEN [act |-> "raise"] ELSE [act |-> "push", frame |-> e.val]
       ELSE LET r == parseLeaf(key, ls, obj)
            IN IF IsExc(r) THEN [act |-> "raise"] ELSE [act |-> "append", val |-> r.val]

\* line 276: line = l + 1
AfterCount(l) == l + 1

\* lines 270-283: one pass of the ring loop
Ring(f, ls) ==
    LET found == FindCount(ls, f.line)
        reg_len == IF found >= 0 THEN [set |-> TRUE, val |-> ParseInt(ls[found + 1]).val]
                   ELSE f.reg_len
        line == IF found >= 0 THEN AfterCount(found) ELSE f.line
        l == IF found >= 0 THEN found
             ELSE IF f.line < Len(ls) THEN Len(ls) - 1 ELSE f.l
    IN IF ~reg_len.set \/ reg_len.val = 0 THEN [act |-> "none"]
       ELSE LET points == CoordLines(ls, line, line + reg_len.val, <<>>)
            IN IF IsExc(points) THEN [act |-> "raise"]
               ELSE [act |-> "ring",
                     frame |-> [f EXCEPT !.l = l, !.line = line, !.reg_len = reg_len,
                                         !.out = Append(f.out, points.val)]]

RingPending ==
    /\ pc = "geom"
    /\ TopFrame.kind = "region"
    /\ Len(TopFrame.out) < TopFrame.declared

\* the stack with v appended to the caller's list once the top frame returns
Returned(v) ==
    LET caller == Len(stack) - 1
    IN [SubSeq(stack, 1, caller) EXCEPT ![caller].out = Append(@, v)]

UnknownFormat == Raise("ValueError", "Uknown data format")

\* lines 200-215: None without a DATA line, else the loop over geom_objects
GetGeometry ==
    /\ pc = "ready"
    /\ LET info == getLineStarted(lines, KwData)
       IN IF info = <<>>
          THEN /\ result' = [op |-> "getGeometry", arg |-> <<>>, soft |-> FALSE,
                             ret |-> None]
               /\ pc' = "returned"
               /\ UNCHANGED stack
          ELSE /\ result' = NoCall
               /\ pc' = "geom"
               /\ stack' = <<Frame("top", info[1].line_num, 0,
                                   GeomObjects(lines, info[1].line_num + 1, <<>>),
                                   Len(lines) - 1, info[1].line_num, NoLen, <<>>)>>
    /\ UNCHANGED <<file_mif, file_mid, lines, mid>>

\* lines 235 and 339: the decoder of the next member is called; one that
\* reads no other geometry returns at once, __parseCollection and
\* __parseRegion start their loop
GeomCall ==
    /\ Pending
    /\ LET call == Call(TopFrame, lines)
       IN /\ call.act \in {"append", "push"}
          /\ stack' = IF call.act = "append"
                       THEN [stack EXCEPT ![Len(stack)].out = Append(@, call.val)]
                       ELSE Append(stack, call.frame)
    /\ UNCHANGED <<file_mif, file_mid, pc, lines, mid, result>>

\* one pass of the ring loop: a ring is read, or line 279 returns None
GeomRing ==
    /\ RingPending
    /\ LET ring == Ring(TopFrame, lines)
       IN /\ ring.act \in {"ring", "none"}
          /\ stack' = IF ring.act = "ring"
                       THEN [stack EXCEPT ![Len(stack)] = ring.frame]
                       ELSE Returned(None)
    /\ UNCHANGED <<file_mif, file_mid, pc, lines, mid, result>>

\* line 284 and line 340: the decoder returns its record
GeomReturn ==
    /\ pc = "geom"
    /\ \/ /\ TopFrame.kind = "region"
          /\ Len(TopFrame.out) >= TopFrame.declared
          /\ stack' = Returned([type |-> "region", geom |-> TopFrame.out,
                                reg_count |-> TopFrame.declared])
       \/ /\ TopFrame.kind = "collection"
          /\ Len(TopFrame.out) = Len(TopFrame.members)
          /\ stack' = Returned([type |-> "collection", geom |-> TopFrame.out])
    /\ UNCHANGED <<file_mif, file_mid, pc, lines, mid, result>>

\* lines 234-237: whatever a decoder raises, at any depth, getGeometry
\* reports as ValueError("Uknown data format ...")
GeomRaise ==
    /\ \/ Pending /\ Call(TopFrame, lines).act = "raise"
       \/ RingPending /\ Ring(TopFrame, lines).act = "raise"
    /\ result' = [op |-> "getGeometry", arg |-> <<>>, soft |-> FALSE,
                  ret |-> UnknownFormat]
    /\ stack' = <<>>
    /\ pc' = "returned"
    /\ UNCHANGED <<file_mif, file_mid, lines, mid>>

\* line 239: return geom
GeomDone ==
    /\ pc = "geom"
    /\ TopFrame.kind = "top"
    /\ Len(TopFrame.out) = Len(TopFrame.members)
    /\ result' = [op |-> "getGeometry", arg |-> <<>>, soft |-> FALSE,
                  ret |-> Ok(TopFrame.out)]
    /\ stack' = <<>>
    /\ pc' = "returned"
    /\ UNCHANGED <<file_mif, file_mid, lines, mid>>

\* the caller takes the result and may call again
Resume ==
    /\ pc = "returned"
    /\ pc' = "ready"
    /\ result' = NoCall
    /\ UNCHANGED <<file_mif, file_mid, lines, mid, stack>>

----------------------------------------------------------------------------
(* Inputs: the texts the checked runs hand to Mif(...) and Mid(...) *)

Seqs(S, n) == UNION { [1..k -> S] : k \in 0..n }

\* '\n'.join(ls)
RECURSIVE JoinLines(_)
JoinLines(ls) ==
    IF ls = <<>> THEN <<>>
    ELSE IF Len(ls) = 1 THEN ls[1]
    ELSE ls[1] \o <<"\n">> \o JoinLines(Tail(ls))

LData ==
    <<"D", "a", "t", "a">>

LPoint ==
    <<"P", "o", "i", "n", "t", " ", "1", " ", "2">>

LPoints ==
    <<"P", "o", "i", "n", "t", "s", " ", "1", " ", "2">>

LCollection0 ==
    <<"C", "o", "l", "l", "e", "c", "t", "i", "o", "n", " ", "0">>

LCollection2 ==
    <<"C", "o", "l", "l", "e", "c", "t", "i", "o", "n", " ", "2">>

LRegion1 ==
    <<"R", "e", "g", "i", "o", "n", " ", "1">>

LRegion2 ==
    <<"R", "e", "g", "i", "o", "n", " ", "2">>

LZero ==
    <<"0">>

LOne ==
    <<"1">>

LTwo ==
    <<"2">>

LCoord ==
    <<"5", " ", "5">>

LColumns1 ==
    <<"C", "O", "L", "U", "M", "N", "S", " ", "1">>

LColumns2 ==
    <<"C", "O", "L", "U", "M", "N", "S", " ", "2">>

LColId ==
    <<" ", " ", "i", "d", " ", "C", "H", "A", "R", "(", "2", "5", "6", ")">>

LColHelp ==
    <<"\t", "h", "e", "l", "p", " ", "C", "H", "A", "R", " ", "(", "9", ")">>

LDelimComma ==
    <<"D", "E", "L", "I", "M", "I", "T", "E", "R", " ", "\"", ",", "\"">>

LDescription1 ==
    <<"D", "E", "S", "C", "R", "I", "P", "T", "I", "O", "N", " ", "1">>

LDescId ==
    <<"\t", "i", "d", " ", "\"", "k", "e", "y", "\"">>

\* a run without a MID file
NoMid == [given |-> FALSE, text |-> <<>>]

\* any short text
TextChars == {"a", "A", "b", " ", "\n"}

TextInputs == { [mif |-> t, mid |-> NoMid] : t \in Seqs(TextChars, MaxTextLen) }

\* a COLUMNS block, whole or cut short, with blank lines
HeaderPool == {LColumns2, LColId, LColHelp, <<>>}

HeaderInputs ==
    { [mif |-> JoinLines(ls), mid |-> NoMid] : ls \in Seqs(HeaderPool, MaxHeaderLines) }

\* a DATA section of points, collections and regions
GeomPool == {LPoint, LPoints, LCollection0, LCollection2, LRegion1, LOne}

GeomInputs ==
    { [mif |-> JoinLines(<<LData>> \o ls), mid |-> NoMid] :
          ls \in Seqs(GeomPool, MaxGeomLines) }

\* a DATA section of one region and the lines after it
RegionPool == {LZero, LOne, LTwo, LCoord}

RegionInputs ==
    { [mif |-> JoinLines(<<LData, head>> \o ls), mid |-> NoMid] :
          head \in {LRegion1, LRegion2}, ls \in Seqs(RegionPool, MaxRegionLines) }

\* a file that uses the other decoders
SampleMif ==
    <<"V", "e", "r", "s", "i", "o", "n", " ", "3", "0", "0", "\n", "D", "a",
    "t", "a", "\n", "L", "i", "n", "e", " ", "1", " ", "2", " ", "3", " ",
    "4", "\n", "P", "l", "i", "n", "e", "\n", "1", " ", "1", "\n", "2", " ",
    "2", "\n", "M", "u", "l", "t", "i", "p", "o", "i", "n", "t", " ", "1",
    "\n", "3", " ", "3", "\n", "A", "r", "c", " ", "1", "\n", "T", "e", "x",
    "t", "\n", "R", "e", "c", "t", "\n", "R", "o", "u", "n", "d", "r", "e",
    "c", "t", "\n", "E", "l", "l", "i", "p", "s", "e", "\n", "n", "o", "n",
    "e">>

\* schemas of one and two columns, with and without a DELIMITER line and a
\* DESCRIPTION block, each with any short MID text
MidMifs ==
    { JoinLines(<<LColumns1, LColId>>),
      JoinLines(<<LDelimComma, LColumns2, LColId, LColHelp>>),
      JoinLines(<<LColumns1, LColId, LDescription1, LDescId>>) }

MidChars == {"a", "\t", ",", "\n"}

MidInputs == { [mif |-> m, mid |-> [given |-> TRUE, text |-> t]] : m \in MidMifs, t \in Seqs(MidChars, MaxMidLen) }

Inputs ==
    TextInputs \cup HeaderInputs \cup GeomInputs \cup RegionInputs \cup MidInputs
        \cup {[mif |-> SampleMif, mid |-> NoMid]}

Init ==
    /\ \E in \in Inputs : file_mif = in.mif /\ file_mid = in.mid
    /\ pc = "new"
    /\ lines = <<>>
    /\ mid = [built |-> FALSE, lines |-> <<>>]
    /\ result = NoCall
    /\ stack = <<>>

Next ==
    \/ MifInit
    \/ GetLineStarted
    \/ GetColumns
    \/ GetDescription
    \/ GetDelimiter
    \/ MidInit
    \/ MidData
    \/ GetGeometry
    \/ GeomCall
    \/ GeomRing
    \/ GeomReturn
    \/ GeomRaise
    \/ GeomDone
    \/ Resume

Spec == Init /\ [][Next]_vars

----------------------------------------------------------------------------
(* Properties of the line store and the header index *)

NonEmptyLines(ls) == SelectSeq(ls, LAMBDA x : x # <<>>)

\* C1: once the Mif is constructed, its lines are exactly the non-empty
\* pieces of the text split on line breaks, in order: no zero-length line
\* remains and no other line is dropped or duplicated.
C1_LinesAreTheNonEmptyPieces ==
    pc # "new" => lines = NonEmptyLines(Split(file_mif, <<"\n">>))

\* the first Len(k) characters of t equal k, letter case ignored
PrefixEqualsIgnoringCase(t, k) ==
    /\ Len(t) >= Len(k)
    /\ \A p \in 1..Len(k) : LowerChar(t[p]) = LowerChar(k[p])

\* a is t without its first n characters and without one space after them
IsAttrsOf(a, t, n) ==
    IF Len(t) > n /\ t[n + 1] = " "
    THEN /\ Len(a) = Len(t) - n - 1
         /\ \A p \in 1..Len(a) : a[p] = t[n + 1 + p]
    ELSE /\ Len(a) = Len(t) - n
         /\ \A p \in 1..Len(a) : a[p] = t[n + p]

\* C2: getLineStarted(K) returns a match for line i exactly when the first
\* len(K) characters of line i equal K case-insensitively; the matches come in
\* ascending line order, each carries its line and the rest of the line less
\* one leading space, and no match gives the empty list, not an error.
C2_LineStartedMatchesPrefix ==
    result.op = "getLineStarted" =>
        LET k == result.arg
            r == result.ret.val
        IN /\ IsOk(result.ret)
           /\ \A i \in 0..(Len(lines) - 1) :
                 (\E j \in 1..Len(r) : r[j].line_num = i)
                     <=> PrefixEqualsIgnoringCase(lines[i + 1], k)
           /\ \A j \in 1..Len(r) :
                 /\ r[j].line_num \in 0..(Len(lines) - 1)
                 /\ r[j].line_text = lines[r[j].line_num + 1]
                 /\ IsAttrsOf(r[j].attrs, r[j].line_text, Len(k))
                 /\ \A j2 \in 1..Len(r) : j < j2 => r[j].line_num < r[j2].line_num

\* an upper-case keyword matches the second, lower-case line, whose attrs
\* lose the one space; the first line does not match
C2_Witness ==
    /\ result.op = "getLineStarted"
    /\ result.arg = <<"A">>
    /\ Len(lines) = 2
    /\ Len(result.ret.val) = 1
    /\ result.ret.val[1].line_num = 1
    /\ result.ret.val[1].line_text = <<"a", " ">>
    /\ result.ret.val[1].attrs = <<>>

----------------------------------------------------------------------------
(* Properties of the column schema and the attribute join *)

\* the error kind a raised exception stands for
ErrorKind(r) ==
    CASE r.exc = "IndexError" -> "IndexOutOfRange"
      [] r.exc = "ValueError" /\ r = TabError -> "MalformedSchema"
      [] r.exc = "ValueError" /\ r = IntError -> "MalformedHeader"
      [] r.exc = "ValueError" /\ r = MismatchError -> "SchemaMismatch"
      [] r.exc = "ValueError" /\ r = UnknownFormat -> "UnknownGeometryType"
      [] OTHER -> "Other"

\* the tokens of a line: the runs of characters other than space and tab
RECURSIVE Tokens(_, _)
Tokens(s, cur) ==
    IF s = <<>> THEN (IF cur = <<>> THEN <<>> ELSE <<cur>>)
    ELSE IF Head(s) \in {" ", "\t"}
    THEN (IF cur = <<>> THEN <<>> ELSE <<cur>>) \o Tokens(Tail(s), <<>>)
    ELSE Tokens(Tail(s), Append(cur, Head(s)))

\* the 0-based number of the first line that starts with k, or -1
FirstStarting(k) ==
    IF \E i \in 1..Len(lines) : PrefixEqualsIgnoringCase(lines[i], k)
    THEN (CHOOSE i \in 1..Len(lines) :
              /\ PrefixEqualsIgnoringCase(lines[i], k)
              /\ \A j \in 1..(i - 1) : ~PrefixEqualsIgnoringCase(lines[j], k)) - 1
    ELSE -1

\* the count a header line declares after its keyword k
DeclaredCount(i, k) == ParseInt(From(lines[i + 1], Len(k)))

\* C9: for a COLUMNS line declaring n, getColumns returns n definitions, the
\* i-th made of the first token and the joined other tokens of the i-th line
\* after it; with fewer than n lines left it fails with MalformedSchema and
\* with no other failure.
C9_ColumnsOrMalformedSchema ==
    LET c == FirstStarting(KwColumns)
    IN (result.op = "getColumns" /\ c >= 0 /\ DeclaredCount(c, KwColumns).ok) =>
        LET n == DeclaredCount(c, KwColumns).val
            left == Len(lines) - c - 1
        IN IF left < n
           THEN IsExc(result.ret) /\ ErrorKind(result.ret) = "MalformedSchema"
           ELSE (\A i \in 1..n : Tokens(lines[c + 1 + i], <<>>) # <<>>) =>
                   /\ IsOk(result.ret)
                   /\ Len(result.ret.val) = n
                   /\ \A i \in 1..n :
                        LET toks == Tokens(lines[c + 1 + i], <<>>)
                        IN result.ret.val[i] =
                               [name |-> toks[1], type |-> Join(Tail(toks))]

\* the schema, key and delimiter Mid.data works with, when all three resolve
SchemaResolves ==
    /\ IsOk(MidSchema(lines).ret)
    /\ IsOk(getDelimiter(lines))
    /\ getDelimiter(lines).val # <<>>

MidRows == NonEmptyLines(mid.lines)

\* line without one trailing occurrence of d, split on d
RowSplitOn(line, d) ==
    LET n == Len(line) - Len(d)
    IN Split(IF n >= 0 /\ From(line, n) = d THEN Take(line, n) ELSE line, d)

\* C6: in strict mode each non-blank MID line loses one trailing delimiter
\* and is split on the delimiter; when every split is as long as the schema
\* the records pair value i with the key of column i, and when one is not
\* the call fails with SchemaMismatch.
C6_StrictPairsOrSchemaMismatch ==
    (result.op = "data" /\ ~result.soft /\ SchemaResolves) =>
        LET cols == MidSchema(lines).ret.val
            key == MidSchema(lines).key
            d == getDelimiter(lines).val
        IN IF \A i \in 1..Len(MidRows) : Len(RowSplitOn(MidRows[i], d)) = Len(cols)
           THEN /\ IsOk(result.ret)
                /\ result.ret.val.count = Len(MidRows)
                /\ Len(result.ret.val.info) = Len(MidRows)
                /\ \A i \in 1..Len(MidRows) :
                     /\ Len(result.ret.val.info[i]) = Len(cols)
                     /\ \A j \in 1..Len(cols) :
                          result.ret.val.info[i][j] =
                              [name |-> Field(cols[j], key),
                               value |-> RowSplitOn(MidRows[i], d)[j]]
           ELSE IsExc(result.ret) /\ ErrorKind(result.ret) = "SchemaMismatch"

\* C7: in soft mode a row shorter or longer than the schema is tolerated: the
\* call does not fail and gives one record per non-blank row, with one pair
\* per value, the key of value i being that of column i modulo the row's
\* length.
C7_SoftToleratesAnyRowLength ==
    (result.op = "data" /\ result.soft /\ SchemaResolves) =>
        LET cols == MidSchema(lines).ret.val
            key == MidSchema(lines).key
            d == getDelimiter(lines).val
        IN /\ IsOk(result.ret)
           /\ Len(result.ret.val.info) = Len(MidRows)
           /\ \A i \in 1..Len(MidRows) :
                LET els == RowValues(MidRows[i], d)
                IN /\ Len(result.ret.val.info[i]) = Len(els)
                   /\ \A j \in 0..(Len(els) - 1) :
                        /\ j % Len(els) < Len(cols)
                        /\ result.ret.val.info[i][j + 1] =
                               [name |-> Field(cols[(j % Len(els)) + 1], key),
                                value |-> els[j + 1]]

----------------------------------------------------------------------------
(* Properties of the geometry decoders *)

\* C3: a collection declaring c members, c >= 0, collects at most c member
\* lines, whatever follows its line.
C3_CollectsAtMostDeclared ==
    \A i \in 1..Len(stack) :
        (stack[i].kind = "collection" /\ stack[i].declared >= 0)
            => Len(stack[i].members) <= stack[i].declared

\* from line pos on there are r rings, each a line int() accepts, k >= 0,
\* and k lines after it
RECURSIVE RingsLaidOut(_, _)
RingsLaidOut(pos, r) ==
    IF r <= 0 THEN TRUE
    ELSE /\ pos < Len(lines)
         /\ ParseInt(lines[pos + 1]).ok
         /\ ParseInt(lines[pos + 1]).val >= 0
         /\ pos + ParseInt(lines[pos + 1]).val < Len(lines)
         /\ RingsLaidOut(pos + 1 + ParseInt(lines[pos + 1]).val, r - 1)

\* the rings laid out from line pos on, each the split of its own k lines
RECURSIVE DeclaredRings(_, _)
DeclaredRings(pos, r) ==
    IF r <= 0 THEN <<>>
    ELSE LET k == ParseInt(lines[pos + 1]).val
         IN <<[p \in 1..k |-> Split(RemoveChar(lines[pos + 1 + p], "\t"), <<" ">>)]>>
                \o DeclaredRings(pos + 1 + k, r - 1)

\* line obj, a member of a frame of this kind, is a region entry whose rings
\* are laid out after it
IsLaidOutRegion(kind, obj) ==
    /\ DispatchKey(kind, lines, obj) = KwRegion
    /\ Len(LineStr(lines, obj)) >= 2
    /\ ParseInt(LineStr(lines, obj)[2]).ok
    /\ RingsLaidOut(obj + 1, ParseInt(LineStr(lines, obj)[2]).val)

RingsOf(obj) == DeclaredRings(obj + 1, ParseInt(LineStr(lines, obj)[2]).val)

\* C4: a region declaring r rings, each a count line k and k coordinate lines,
\* is decoded to exactly those r rings in order, each holding its own k lines:
\* the rings read so far are the first of them, and the record returned holds
\* them all.
C4_RegionRingsAsDeclared ==
    \A i \in 1..Len(stack) :
        LET f == stack[i]
        IN /\ (f.kind = "region" /\ IsLaidOutRegion(stack[i - 1].kind, f.entry))
                 => f.out = Take(RingsOf(f.entry), Len(f.out))
           /\ f.kind \in {"top", "collection"} =>
                 \A j \in 1..Len(f.out) :
                     IsLaidOutRegion(f.kind, f.members[j]) =>
                         /\ "type" \in DOMAIN f.out[j]
                         /\ f.out[j].type = "region"
                         /\ f.out[j].geom = RingsOf(f.members[j])

\* C5: when a ring of a region is due and no line from the cursor to the end
\* of the store is a count line, decoding fails: the call ends with an error,
\* it does not return an absent geometry or go on with the previous count.
C5_MissingCountFails ==
    [][(RingPending /\ FindCount(lines, TopFrame.line) < 0)
           => (pc' = "returned" /\ IsExc(result'.ret))]_vars

\* the numbers of the lines after the first DATA line that start with a
\* geometry keyword
EntryPoints ==
    { i \in (FirstStarting(KwData) + 1)..(Len(lines) - 1) :
          StartsWithAny(Lower(lines[i + 1]), types) }

\* C8: with a DATA line, getGeometry returns one record per line after it
\* that starts with a geometry keyword and fails on none of them; without a
\* DATA line it returns None, which is not the empty list.
C8_OneRecordPerEntryPoint ==
    result.op = "getGeometry" =>
        IF FirstStarting(KwData) < 0
        THEN result.ret = None
        ELSE /\ IsOk(result.ret)
             /\ Len(result.ret.val) = Cardinality(EntryPoints)

\* the members a frame has still to start: those after the ones decoded and
\* the one being decoded
Remaining(st, i) ==
    LET total == IF st[i].kind = "region" THEN st[i].declared ELSE Len(st[i].members)
        started == Len(st[i].out) + (IF i < Len(st) THEN 1 ELSE 0)
    IN IF total > started THEN total - started ELSE 0

\* a is before b in the order of the dictionary
Before(a, b) ==
    \/ Len(a) < Len(b) /\ \A j \in 1..Len(a) : a[j] = b[j]
    \/ \E k \in 1..Min(Len(a), Len(b)) :
           a[k] < b[k] /\ \A j \in 1..(k - 1) : a[j] = b[j]

Work(st) == [i \in 1..Len(st) |-> Remaining(st, i)]

C10_Nesting ==
    /\ Len(stack) <= Len(lines)
    /\ \A i \in 1..Len(stack) :
         LET f == stack[i]
         IN /\ f.kind = "collection" =>
                   \A j \in 1..Len(f.members) : f.entry < f.members[j]
            /\ (i > 1 /\ stack[i - 1].kind = "collection") =>
                   stack[i - 1].entry < f.entry
            /\ f.l <= Len(lines) - 1
            /\ f.line <= Len(lines)

\* C10: the members of a collection entered at line L are lines after L, so a
\* decoder a collection calls is called at a line after the collection's own;
\* the stack of running decoders is never deeper than the store is long; each
\* scan has stopped at or before the last line; and every step of a running
\* getGeometry leaves less work, in the order of the dictionary on the members
\* left per frame, so that the call ends.
C10_DecodingTerminates ==
    /\ []C10_Nesting
    /\ [][(pc = "geom" /\ pc' = "geom") => Before(Work(stack'), Work(stack))]_vars

\* a collection nested in a collection, the inner one's search having run to
\* the last line of the store
C10_Witness ==
    /\ Len(stack) = 3
    /\ stack[2].kind = "collection"
    /\ stack[3].kind = "collection"
    /\ stack[3].l = Len(lines) - 1
    /\ Len(stack[3].members) = 1

====
